---- MODULE Spec2Model ----
(***************************************************************************)
(* Model of BotTrading-V4: index.js (signal registry, dedup gate, per-      *)
(* signal monitor timers, sweep) and analysis.js (candle loader with        *)
(* provider fallback, TP/SL hit scan).                                       *)
(*                                                                           *)
(* Time is counted in whole minutes: MONITOR_CHECK_INTERVAL_MS is one        *)
(* minute, DEDUPE_WINDOW_MINUTES is 60 of them.                              *)
(***************************************************************************)
EXTENDS Integers, Sequences, FiniteSets, TLC

VARIABLES
    now,            \* Date.now(), in minutes since process start
    activeSignals,  \* index.js:34  list of signal records
    ticks,          \* per signal: the interval callbacks suspended at an await
    notices,        \* per signal: the messages handed to broadcastToAllUsers
    sweeps,         \* runAutoAnalysis invocations suspended at an await
    scanDue,        \* the auto-analysis timer has fired and not been served
    scanInterval,   \* SCAN_INTERVAL_MS in minutes (read from the environment)
    market,         \* the provider's 1m candle series (oldest first)
    hitArgs,        \* arguments of a checkSignalHit call under test
    hitResult,      \* what that call returned
    dupArgs,        \* arguments of an isDuplicateSignal call under test
    dupResult,      \* what that call returned
    load,           \* one loadCandles call: position, contacts, result
    ohlcv,          \* the candles handed to the indicator functions
    engine,         \* the indicator arrays computed from them
    snapshot,       \* an analyzeSymbol call under test: what it read
    verdict         \* what that call returned

vars == << now, activeSignals, ticks, notices, sweeps, scanDue, scanInterval,
           market, hitArgs, hitResult, dupArgs, dupResult, load,
           ohlcv, engine, snapshot, verdict >>

(***************************************************************************)
(* Program constants                                                        *)
(***************************************************************************)
DEDUPE_WINDOW_MINUTES == 60
MONITOR_CHECK_INTERVAL_MS == 60 * 1000
MAX_MONITOR_HOURS == 48
MsPerMinute == 60 * 1000
NoTime == -1   \* resolvedAt: null

Min(a, b) == IF a <= b THEN a ELSE b
Max(a, b) == IF a >= b THEN a ELSE b

\* Math.ceil(a / b) for positive integers
Ceil(a, b) == (a + b - 1) \div b

\* index.js:204  the hours are multiplied by 60 * 1000, not by 60 * 60 * 1000
maxChecks == Ceil(MAX_MONITOR_HOURS * 60 * 1000, MONITOR_CHECK_INTERVAL_MS)

NULL == "null"
SIDES == {"LONG", "SHORT"}
TERMINAL == {"TP", "SL", "EXPIRED"}

(***************************************************************************)
(* analysis.js: checkSignalHit                                              *)
(***************************************************************************)
NoHit == [status |-> NULL, idx |-> -1]

\* the tie of a double touch always given to the stop
HitInCandle_TieIsStop(side, sl, tp, c, idx) ==
    IF side = "LONG" THEN
        IF c.low <= sl THEN [status |-> "SL", idx |-> idx]
        ELSE IF c.high >= tp THEN [status |-> "TP", idx |-> idx]
        ELSE NoHit
    ELSE IF side = "SHORT" THEN
        IF c.high >= sl THEN [status |-> "SL", idx |-> idx]
        ELSE IF c.low <= tp THEN [status |-> "TP", idx |-> idx]
        ELSE NoHit
    ELSE NoHit

\* one loop iteration's verdict on candle c at index idx: a result record,
\* or NoHit when neither return statement is reached and the loop goes on
HitInCandle(side, sl, tp, c, idx) ==
    IF side = "LONG" THEN
        LET tpTouched == c.high >= tp
            slTouched == c.low <= sl
        IN  IF tpTouched /\ ~slTouched THEN [status |-> "TP", idx |-> idx]
            ELSE IF slTouched /\ ~tpTouched THEN [status |-> "SL", idx |-> idx]
            ELSE IF tpTouched /\ slTouched THEN
                IF c.close >= tp THEN [status |-> "TP", idx |-> idx]
                ELSE [status |-> "SL", idx |-> idx]
            ELSE NoHit
    ELSE IF side = "SHORT" THEN
        LET tpTouched == c.low <= tp
            slTouched == c.high >= sl
        IN  IF tpTouched /\ ~slTouched THEN [status |-> "TP", idx |-> idx]
            ELSE IF slTouched /\ ~tpTouched THEN [status |-> "SL", idx |-> idx]
            ELSE IF tpTouched /\ slTouched THEN
                IF c.close <= tp THEN [status |-> "TP", idx |-> idx]
                ELSE [status |-> "SL", idx |-> idx]
            ELSE NoHit
    ELSE NoHit

\* the for loop of checkSignalHit from (0-based) index idx on
RECURSIVE ScanCandles(_, _, _, _, _)
RECURSIVE ScanCandles_NewestFirst(_, _, _, _, _)
\* the same loop walking from the newest candle to the oldest
ScanCandles_NewestFirst(side, sl, tp, candles, idx) ==
    IF idx >= Len(candles) THEN NoHit
    ELSE LET at == Len(candles) - 1 - idx
             r == HitInCandle(side, sl, tp, candles[at + 1], at)
         IN  IF r.status # NULL THEN r
             ELSE ScanCandles_NewestFirst(side, sl, tp, candles, idx + 1)

ScanCandles(side, sl, tp, candles, idx) ==
    IF idx >= Len(candles) THEN NoHit
    ELSE LET r == HitInCandle(side, sl, tp, candles[idx + 1], idx)
         IN  IF r.status # NULL THEN r
             ELSE ScanCandles(side, sl, tp, candles, idx + 1)

\* limit = Math.min(Math.max(lookbackMinutes, 10), 1440)
LookbackLimit(lookbackMinutes) == Min(Max(lookbackMinutes, 10), 1440)

\* the provider's answer to klines(symbol, '1m', limit): the latest candles
Klines(series, limit) ==
    IF Len(series) <= limit THEN series
    ELSE SubSeq(series, Len(series) - limit + 1, Len(series))

\* lines 293-330: loaded is [ok |-> loadCandles returned, candles |-> what it
\* returned]; a failed loadCandles throws and the catch block answers
\* { status: null }
checkSignalHitOn(side, sl, tp, loaded) ==
    IF ~loaded.ok THEN NoHit
    ELSE IF Len(loaded.candles) = 0 THEN NoHit
    ELSE ScanCandles(side, sl, tp, loaded.candles, 0)

\* fetch is [ok |-> BOOLEAN, series |-> the provider's series], of which the
\* provider serves the latest `limit` candles
checkSignalHit(side, sl, tp, lookbackMinutes, fetch) ==
    checkSignalHitOn(side, sl, tp,
        [ok |-> fetch.ok,
         candles |-> Klines(fetch.series, LookbackLimit(lookbackMinutes))])

(***************************************************************************)
(* analysis.js: numbers                                                     *)
(*                                                                          *)
(* A JavaScript number is a fraction num/den with den > 0, kept in lowest   *)
(* terms; NaN and Infinity are the fractions 0/0 and 1/0, -1/0.             *)
(***************************************************************************)
NaN == [num |-> 0, den |-> 0]
Infinity == [num |-> 1, den |-> 0]
isNaN(x) == x.den = 0 /\ x.num = 0
Finite(x) == x.den > 0

Abs(n) == IF n < 0 THEN -n ELSE n
Sign(n) == IF n < 0 THEN -1 ELSE IF n > 0 THEN 1 ELSE 0

RECURSIVE GCD(_, _)
GCD(a, b) == IF b = 0 THEN a ELSE GCD(b, a % b)

\* the number n / d
Rat(n, d) ==
    IF d = 0 THEN [num |-> Sign(n), den |-> 0]
    ELSE LET g == GCD(Abs(n), Abs(d))
         IN  [num |-> Sign(d) * (n \div g), den |-> Abs(d) \div g]

Num(n) == [num |-> n, den |-> 1]

RatAdd(a, b) ==
    IF isNaN(a) \/ isNaN(b) THEN NaN
    ELSE IF ~Finite(a) /\ ~Finite(b) THEN (IF a.num = b.num THEN a ELSE NaN)
    ELSE IF ~Finite(a) THEN a
    ELSE IF ~Finite(b) THEN b
    ELSE Rat(a.num * b.den + b.num * a.den, a.den * b.den)
RatNeg(a) == [num |-> -a.num, den |-> a.den]
RatSub(a, b) == RatAdd(a, RatNeg(b))
RatMul(a, b) == Rat(a.num * b.num, a.den * b.den)
RatDiv(a, b) ==
    IF isNaN(a) \/ isNaN(b) THEN NaN
    ELSE IF ~Finite(a) /\ ~Finite(b) THEN NaN
    ELSE IF ~Finite(b) THEN Num(0)
    ELSE IF ~Finite(a) THEN [num |-> a.num * (IF b.num < 0 THEN -1 ELSE 1), den |-> 0]
    ELSE Rat(a.num * b.den, a.den * b.num)
RatAbs(a) == [num |-> Abs(a.num), den |-> a.den]

\* a < b, a <= b: false when either side is NaN
RatLT(a, b) ==
    /\ ~isNaN(a) /\ ~isNaN(b)
    /\ IF Finite(a) /\ Finite(b) THEN a.num * b.den < b.num * a.den
       ELSE IF Finite(a) THEN b.num > 0
       ELSE IF Finite(b) THEN a.num < 0
       ELSE a.num < b.num
RatLE(a, b) == RatLT(a, b) \/ (~isNaN(a) /\ a = b)
RatMin(a, b) == IF RatLT(b, a) THEN b ELSE a
RatMax(a, b) == IF RatLT(a, b) THEN b ELSE a

\* Math.floor of a finite number
Floor(a) == a.num \div a.den
\* Math.round: the nearest integer, halves upwards
Round(a) == Floor(RatAdd(a, Rat(1, 2)))

RECURSIVE Pow10(_)
Pow10(k) == IF k = 0 THEN 1 ELSE 10 * Pow10(k - 1)

\* parseFloat(x.toFixed(digits)): x itself when it has no more than `digits`
\* decimals, and the nearest number with `digits` decimals otherwise
ToFixed(x, digits) ==
    IF ~Finite(x) THEN x
    ELSE IF Pow10(digits) % x.den = 0 THEN x
    ELSE LET scaled == RatMul(RatAbs(x), Num(Pow10(digits)))
         IN  Rat(Sign(x.num) * Round(scaled), Pow10(digits))

\* Math.sqrt, to two decimals
RECURSIVE IsqrtIn(_, _, _)
IsqrtIn(x, lo, hi) ==
    IF lo >= hi THEN lo
    ELSE LET mid == (lo + hi + 1) \div 2
         IN  IF mid * mid <= x THEN IsqrtIn(x, mid, hi) ELSE IsqrtIn(x, lo, mid - 1)
Sqrt(x) ==
    IF ~Finite(x) \/ x.num < 0 THEN (IF x = Infinity THEN x ELSE NaN)
    ELSE Rat(IsqrtIn((x.num * 10000) \div x.den, 0, 46340), 100)

(***************************************************************************)
(* analysis.js: rsiFromCloses, sma, atrFromCandles                          *)
(*                                                                          *)
(* An array is a sequence; JavaScript index i is position i + 1.            *)
(***************************************************************************)
RSI_LENGTH == 14
BB_LENGTH == 20
BB_STD == 2
V_SMA == 3
ATR_LENGTH == 14

\* new Array(n).fill(NaN)
NaNs(n) == [k \in 1 .. n |-> NaN]

\* deltas[i] = closes[i + 1] - closes[i]
Deltas(closes) == [k \in 1 .. Len(closes) - 1 |-> closes[k + 1] - closes[k]]

Gain(d) == IF d > 0 THEN d ELSE 0
\* the loss of a delta, with its sign kept
Loss_Signed(d) == IF d > 0 THEN 0 ELSE d
\* Math.abs(d) of a delta that is not a gain
Loss(d) == IF d > 0 THEN 0 ELSE Abs(d)

\* avgGain and avgLoss at index i >= length, as gain / scale and loss / scale
RECURSIVE Averages(_, _, _)
Averages(deltas, length, i) ==
    IF i = length
    THEN LET RECURSIVE SeedSum(_, _)
             SeedSum(k, gains) ==
                IF k > length THEN gains
                ELSE SeedSum(k + 1, [gain |-> gains.gain + Gain(deltas[k]),
                                     loss |-> gains.loss + Loss(deltas[k])])
             seed == SeedSum(1, [gain |-> 0, loss |-> 0])
         IN  [gain |-> seed.gain, loss |-> seed.loss, scale |-> length]
    ELSE LET prev == Averages(deltas, length, i - 1)
             d == deltas[i]
         IN  [gain  |-> prev.gain * (length - 1) + Gain(d) * prev.scale,
              loss  |-> prev.loss * (length - 1) + Loss(d) * prev.scale,
              scale |-> prev.scale * length]

\* rs = avgLoss === 0 ? 100 : avgGain / avgLoss
RelativeStrength(avg) == IF avg.loss = 0 THEN Num(100) ELSE Rat(avg.gain, avg.loss)

\* 100 - (100 / (1 + rs))
RsiOf(rs) == RatSub(Num(100), RatDiv(Num(100), RatAdd(Num(1), rs)))

rsiFromCloses(closes, length) ==
    IF Len(closes) < length + 1 THEN NaNs(Len(closes))
    ELSE [k \in 1 .. Len(closes) |->
            IF k - 1 < length THEN NaN
            ELSE RsiOf(RelativeStrength(Averages(Deltas(closes), length, k - 1)))]

\* the running sum of sma at index i
RECURSIVE RunningSum(_, _, _)
RunningSum(values, period, i) ==
    IF i < 0 THEN 0
    ELSE RunningSum(values, period, i - 1) + values[i + 1]
            - (IF i >= period THEN values[i - period + 1] ELSE 0)

sma(values, period) ==
    [k \in 1 .. Len(values) |->
        IF k - 1 >= period - 1 THEN Rat(RunningSum(values, period, k - 1), period)
        ELSE NaN]

\* trs[i - 1] of candle i >= 1
TrueRange(cur, prev) ==
    Max(cur.high - cur.low,
        Max(Abs(cur.high - prev.close), Abs(cur.low - prev.close)))

TrueRanges(candles) ==
    [k \in 1 .. Len(candles) - 1 |-> TrueRange(candles[k + 1], candles[k])]

RECURSIVE SumTo(_, _)
SumTo(values, n) == IF n = 0 THEN 0 ELSE SumTo(values, n - 1) + values[n]

\* atr after the loop iteration that wrote out[i], i >= period
RECURSIVE AtrAt(_, _, _)
AtrAt(trs, period, i) ==
    IF i = period THEN Rat(SumTo(trs, period), period)
    ELSE RatDiv(RatAdd(RatMul(AtrAt(trs, period, i - 1), Num(period - 1)),
                       Num(trs[i])),
                Num(period))

atrFromCandles(candles, period) ==
    IF Len(TrueRanges(candles)) < period THEN NaNs(Len(candles))
    ELSE [k \in 1 .. Len(candles) |->
            IF k - 1 >= period THEN AtrAt(TrueRanges(candles), period, k - 1)
            ELSE NaN]

\* bb_upper[i] and bb_lower[i] for i >= BB_LENGTH - 1
BollingerAt(closes, sma20, i) ==
    LET mean == sma20[i + 1]
        RECURSIVE SquaresFrom(_)
        SquaresFrom(k) ==
            IF k > i + 1 THEN Num(0)
            ELSE LET dev == RatSub(Num(closes[k]), mean)
                 IN  RatAdd(RatMul(dev, dev), SquaresFrom(k + 1))
        variance == RatDiv(SquaresFrom(i - BB_LENGTH + 2), Num(BB_LENGTH))
        std == Sqrt(variance)
    IN  [upper |-> RatAdd(mean, RatMul(Num(BB_STD), std)),
         lower |-> RatSub(mean, RatMul(Num(BB_STD), std))]

\* priceChange: 0 at index 0, closes[i] - closes[i - 1] after it
PriceChange(closes) ==
    [k \in 1 .. Len(closes) |-> IF k = 1 THEN 0 ELSE closes[k] - closes[k - 1]]

\* aArr
Acceleration(vArr) ==
    [k \in 1 .. Len(vArr) |->
        IF k >= 2 /\ ~isNaN(vArr[k]) /\ ~isNaN(vArr[k - 1])
        THEN RatSub(vArr[k], vArr[k - 1])
        ELSE NaN]

\* the indicator arrays analyzeSymbol builds: lines 197-231
Indicators(candles) ==
    LET closes == [k \in 1 .. Len(candles) |-> candles[k].close]
        sma20 == sma(closes, BB_LENGTH)
        bands == [k \in 1 .. Len(closes) |->
                    IF k - 1 >= BB_LENGTH - 1 THEN BollingerAt(closes, sma20, k - 1)
                    ELSE [upper |-> NaN, lower |-> NaN]]
        vArr == sma(PriceChange(closes), V_SMA)
    IN  [ rsiArr   |-> rsiFromCloses(closes, RSI_LENGTH),
          bb_upper |-> [k \in 1 .. Len(closes) |-> bands[k].upper],
          bb_lower |-> [k \in 1 .. Len(closes) |-> bands[k].lower],
          vArr     |-> vArr,
          aArr     |-> Acceleration(vArr),
          atrArr   |-> atrFromCandles(candles, ATR_LENGTH) ]

(***************************************************************************)
(* analysis.js: analyzeSymbol                                               *)
(***************************************************************************)
NoSignal == [symbol |-> NULL, side |-> NULL, entry |-> NaN, sl |-> NaN,
             tp |-> NaN, rr |-> NaN, confidence |-> 0]

\* the values at the latest index i = closes.length - 1: lines 233-239
LatestSnapshot(candles) ==
    LET n == Len(candles)
        ind == Indicators(candles)
    IN  [ rsi     |-> ind.rsiArr[n],
          close   |-> Num(candles[n].close),
          lowerBB |-> ind.bb_lower[n],
          upperBB |-> ind.bb_upper[n],
          acc     |-> ind.aArr[n],
          atr     |-> ind.atrArr[n] ]

\* the entry rules with the acceleration left out
EntrySide_NoAcceleration(rsi, close, lowerBB, upperBB, acc) ==
    IF RatLT(rsi, Num(30)) /\ RatLT(close, lowerBB) THEN "LONG"
    ELSE IF RatLT(Num(70), rsi) /\ RatLT(upperBB, close) THEN "SHORT"
    ELSE NULL

\* the entry rules: lines 246-249
EntrySide(rsi, close, lowerBB, upperBB, acc) ==
    IF RatLT(rsi, Num(30)) /\ RatLT(close, lowerBB) /\ RatLT(Num(0), acc) THEN "LONG"
    ELSE IF RatLT(Num(70), rsi) /\ RatLT(upperBB, close) /\ RatLT(acc, Num(0)) THEN "SHORT"
    ELSE NULL

\* the stop as far off the entry as the target
StopAndTarget_SameDistance(side, entry, atr) ==
    IF side = "LONG"
    THEN [sl |-> RatSub(entry, RatMul(Num(3), atr)),
          tp |-> RatAdd(entry, RatMul(Num(3), atr))]
    ELSE [sl |-> RatAdd(entry, RatMul(Num(3), atr)),
          tp |-> RatSub(entry, RatMul(Num(3), atr))]

\* sl and tp: lines 252-259
StopAndTarget(side, entry, atr) ==
    IF side = "LONG"
    THEN [sl |-> RatSub(entry, RatMul(Rat(3, 2), atr)),
          tp |-> RatAdd(entry, RatMul(Num(3), atr))]
    ELSE [sl |-> RatAdd(entry, RatMul(Rat(3, 2), atr)),
          tp |-> RatSub(entry, RatMul(Num(3), atr))]

\* the heuristic without its ceiling of 35
Confidence_Uncapped(acc, atr) ==
    LET absAtr == IF atr.num = 0 THEN Num(1) ELSE RatAbs(atr)
        scaled == RatMul(RatDiv(RatAbs(acc), absAtr), Num(10))
    IN  RatAdd(Num(60), RatMax(Num(0), scaled))

\* 60 + Math.min(35, Math.max(0, (Math.abs(acc) / (Math.abs(atr) || 1)) * 10))
Confidence(acc, atr) ==
    LET absAtr == IF atr.num = 0 THEN Num(1) ELSE RatAbs(atr)
        scaled == RatMul(RatDiv(RatAbs(acc), absAtr), Num(10))
    IN  RatAdd(Num(60), RatMin(Num(35), RatMax(Num(0), scaled)))

\* lines 233-280, on the values read at the latest index
Rule(symbol, snap) ==
    IF \E v \in {snap.rsi, snap.lowerBB, snap.upperBB, snap.acc, snap.atr} : isNaN(v)
    THEN NoSignal
    ELSE LET side == EntrySide(snap.rsi, snap.close, snap.lowerBB, snap.upperBB, snap.acc)
         IN  IF side = NULL THEN NoSignal
             ELSE LET entry == snap.close
                      st == StopAndTarget(side, entry, snap.atr)
                      rr == RatDiv(RatAbs(RatSub(st.tp, entry)),
                                   RatAbs(RatSub(entry, st.sl)))
                  IN  [ symbol |-> symbol, side |-> side,
                        entry |-> ToFixed(entry, 8),
                        sl |-> ToFixed(st.sl, 8),
                        tp |-> ToFixed(st.tp, 8),
                        rr |-> ToFixed(rr, 2),
                        confidence |-> Round(RatMin(Num(100),
                                                    Confidence(snap.acc, snap.atr))) ]

\* loaded is [ok |-> loadCandles returned, count |-> ohlcv.length]; a failed
\* loadCandles throws and the catch block answers null
analyzeSymbolOn(symbol, loaded, snap) ==
    IF ~loaded.ok THEN NoSignal
    ELSE IF loaded.count < 30 THEN NoSignal
    ELSE Rule(symbol, snap)

\* fetch is [ok |-> loadCandles returned, candles |-> what it returned]
analyzeSymbol(symbol, fetch) ==
    IF ~fetch.ok THEN NoSignal
    ELSE IF Len(fetch.candles) < 30 THEN NoSignal
    ELSE Rule(symbol, LatestSnapshot(fetch.candles))

(***************************************************************************)
(* Bounds of the model                                                      *)
(***************************************************************************)
MaxSignals == 1     \* registrations followed when awaits take any time
MaxInFlight == 2    \* suspended callbacks of one signal's timer
MaxSweeps == 1      \* suspended runAutoAnalysis passes
MaxTime == 2        \* minutes followed when awaits take any time
TimedSignals == 2   \* registrations followed when awaits end within the minute
Horizon == 61       \* minutes followed when awaits end within the minute

\* the head of the list of 49 symbols
TARGET_COINS == << "BTCUSDT" >>

(***************************************************************************)
(* The environment: prices, candles, what analyzeSymbol may answer          *)
(***************************************************************************)
Prices == {95, 100, 105, 110, 115}

Candles == { c \in [low : Prices, high : Prices, close : Prices] :
                c.low <= c.close /\ c.close <= c.high }

\* the 1m windows a monitor tick may be served, the last candle being the
\* one of the current minute: that candle flat, a spike or a drop, or three
\* minutes of which the oldest moved
QuietCandle == [low |-> 105, high |-> 105, close |-> 105]
SpikeCandle == [low |-> 105, high |-> 115, close |-> 115]
DropCandle  == [low |-> 95,  high |-> 105, close |-> 95]
Fetches == { [ok |-> FALSE, series |-> << >>] } \cup
           { [ok |-> TRUE, series |-> << c >>] :
                c \in {QuietCandle, SpikeCandle, DropCandle} } \cup
           { [ok |-> TRUE, series |-> << c, QuietCandle, QuietCandle >>] :
                c \in {SpikeCandle, DropCandle} }

\* analyzeSymbol's answers with a side (sl and tp 1.5 and 3 ATR off the entry)
Candidate(symbol, side) ==
    IF side = "LONG"
    THEN [symbol |-> symbol, side |-> side, entry |-> 100, sl |-> 95,
          tp |-> 110, confidence |-> 60]
    ELSE [symbol |-> symbol, side |-> side, entry |-> 110, sl |-> 115,
          tp |-> 100, confidence |-> 60]

NoCandidate == [symbol |-> NULL, side |-> NULL, entry |-> 0, sl |-> 0,
                tp |-> 0, confidence |-> 0]

(***************************************************************************)
(* index.js: isDuplicateSignal, registerSignal                              *)
(***************************************************************************)
\* the for loop of isDuplicateSignal from position i on
RECURSIVE DuplicateFrom(_, _, _, _, _)
DuplicateFrom(signals, i, symbol, side, nowMs) ==
    IF i > Len(signals) THEN FALSE
    ELSE LET s == signals[i]
             windowMs == DEDUPE_WINDOW_MINUTES * 60 * 1000
             createdMs == s.createdAt * MsPerMinute
         IN  IF /\ s.symbol = symbol /\ s.side = side
                /\ (nowMs - createdMs) <= windowMs
                /\ (s.status = "OPEN" \/ s.status = "PENDING")
             THEN TRUE
             ELSE DuplicateFrom(signals, i + 1, symbol, side, nowMs)

\* the gate asking for the symbol only
isDuplicateSignal_AnySide(signals, symbol, side, nowMin) ==
    \E i \in 1 .. Len(signals) :
        DuplicateFrom(<< signals[i] >>, 1, symbol, signals[i].side, nowMin * MsPerMinute)

\* the gate taking the window's minutes for milliseconds
isDuplicateSignal_WindowInMs(signals, symbol, side, nowMin) ==
    \E i \in 1 .. Len(signals) :
        /\ signals[i].symbol = symbol /\ signals[i].side = side
        /\ (nowMin - signals[i].createdAt) * MsPerMinute <= DEDUPE_WINDOW_MINUTES
        /\ (signals[i].status = "OPEN" \/ signals[i].status = "PENDING")

isDuplicateSignal(signals, symbol, side, nowMin) ==
    DuplicateFrom(signals, 1, symbol, side, nowMin * MsPerMinute)

\* setInterval gives the signal a timer, unless its handle says it has one
startMonitoringSignal(signal) ==
    IF signal.monitorInterval # "none" THEN signal
    ELSE [signal EXCEPT !.monitorInterval = "armed"]

\* the record registerSignal builds, with the timer startMonitoringSignal arms
NewSignal(signalObj, nowMin) ==
    [ symbol |-> signalObj.symbol, side |-> signalObj.side,
      entry |-> signalObj.entry, sl |-> signalObj.sl, tp |-> signalObj.tp,
      confidence |-> signalObj.confidence,
      createdAt |-> nowMin, status |-> "OPEN", resolvedAt |-> NoTime,
      monitorChecks |-> 0, monitorHistory |-> << >>,
      monitorInterval |-> "none" ]

registerSignal(signals, signalObj, nowMin) ==
    Append(signals, startMonitoringSignal(NewSignal(signalObj, nowMin)))

SignalIds == 1 .. Len(activeSignals)

(***************************************************************************)
(* index.js: startMonitoringSignal, the interval callback                   *)
(***************************************************************************)
\* the callback counting the check before it looks at the status
TimerFire_CountsBeforeGuard(s, cap) ==
    /\ s \in SignalIds
    /\ activeSignals[s].monitorInterval = "due"
    /\ activeSignals' = [activeSignals EXCEPT
            ![s].monitorChecks = @ + 1,
            ![s].monitorInterval =
                IF activeSignals[s].status # "OPEN" THEN "none" ELSE "armed"]
    /\ IF activeSignals[s].status # "OPEN"
       THEN UNCHANGED ticks
       ELSE /\ Cardinality(ticks[s]) < cap
            /\ ticks' = [ticks EXCEPT ![s] = @ \cup
                    {[n |-> activeSignals[s].monitorChecks + 1, pc |-> "check"]}]
    /\ UNCHANGED << now, notices, sweeps, scanDue, scanInterval >>
    /\ UNCHANGED << market, hitArgs, hitResult, dupArgs, dupResult, load >>
    /\ UNCHANGED << ohlcv, engine, snapshot, verdict >>

\* The callback starts: lines 206-216, up to the await of checkSignalHit.
\* cap bounds the callbacks of one signal that are suspended at once.
TimerFire(s, cap) ==
    /\ s \in SignalIds
    /\ activeSignals[s].monitorInterval = "due"
    /\ IF activeSignals[s].status # "OPEN"
       THEN /\ activeSignals' = [activeSignals EXCEPT ![s].monitorInterval = "none"]
            /\ UNCHANGED ticks
       ELSE /\ Cardinality(ticks[s]) < cap
            /\ activeSignals' = [activeSignals EXCEPT
                    ![s].monitorChecks = @ + 1,
                    ![s].monitorInterval = "armed"]
            /\ ticks' = [ticks EXCEPT ![s] = @ \cup
                    {[n |-> activeSignals[s].monitorChecks + 1, pc |-> "check"]}]
    /\ UNCHANGED << now, notices, sweeps, scanDue, scanInterval >>
    /\ UNCHANGED << market, hitArgs, hitResult, dupArgs, dupResult, load >>
    /\ UNCHANGED << ohlcv, engine, snapshot, verdict >>

\* the callback testing the ceiling before the result of the check
CheckReturns_ExpiryFirst(s, t, fetch) ==
    /\ s \in SignalIds
    /\ t \in ticks[s]
    /\ t.pc = "check"
    /\ LET sig == activeSignals[s]
           result == checkSignalHit(sig.side, sig.sl, sig.tp, 120, fetch)
           hist == Append(sig.monitorHistory, result.status)
           final == IF sig.monitorChecks >= maxChecks THEN "EXPIRED"
                    ELSE IF result.status = "TP" \/ result.status = "SL"
                    THEN result.status ELSE NULL
       IN  IF final # NULL
           THEN /\ activeSignals' = [activeSignals EXCEPT
                        ![s].monitorHistory = hist,
                        ![s].status = final,
                        ![s].resolvedAt = now]
                /\ notices' = [notices EXCEPT ![s] = Append(@, final)]
                /\ ticks' = [ticks EXCEPT ![s] =
                        (@ \ {t}) \cup {[n |-> t.n, pc |-> "notify"]}]
           ELSE /\ activeSignals' = [activeSignals EXCEPT
                        ![s].monitorHistory = hist]
                /\ ticks' = [ticks EXCEPT ![s] = @ \ {t}]
                /\ UNCHANGED notices
    /\ UNCHANGED << now, sweeps, scanDue, scanInterval >>
    /\ UNCHANGED << market, hitArgs, hitResult, dupArgs, dupResult, load >>
    /\ UNCHANGED << ohlcv, engine, snapshot, verdict >>

\* the callback expiring a signal without the time of it
CheckReturns_ExpiryWithoutTime(s, t, fetch) ==
    /\ s \in SignalIds
    /\ t \in ticks[s]
    /\ t.pc = "check"
    /\ LET sig == activeSignals[s]
           result == checkSignalHit(sig.side, sig.sl, sig.tp, 120, fetch)
           hist == Append(sig.monitorHistory, result.status)
       IN  IF result.status = "TP" \/ result.status = "SL"
           THEN /\ activeSignals' = [activeSignals EXCEPT
                        ![s].monitorHistory = hist,
                        ![s].status = result.status,
                        ![s].resolvedAt = now]
                /\ notices' = [notices EXCEPT ![s] = Append(@, result.status)]
                /\ ticks' = [ticks EXCEPT ![s] =
                        (@ \ {t}) \cup {[n |-> t.n, pc |-> "notify"]}]
           ELSE IF sig.monitorChecks >= maxChecks
           THEN /\ activeSignals' = [activeSignals EXCEPT
                        ![s].monitorHistory = hist,
                        ![s].status = "EXPIRED"]
                /\ notices' = [notices EXCEPT ![s] = Append(@, "EXPIRED")]
                /\ ticks' = [ticks EXCEPT ![s] =
                        (@ \ {t}) \cup {[n |-> t.n, pc |-> "notify"]}]
           ELSE /\ activeSignals' = [activeSignals EXCEPT
                        ![s].monitorHistory = hist]
                /\ ticks' = [ticks EXCEPT ![s] = @ \ {t}]
                /\ UNCHANGED notices
    /\ UNCHANGED << now, sweeps, scanDue, scanInterval >>
    /\ UNCHANGED << market, hitArgs, hitResult, dupArgs, dupResult, load >>
    /\ UNCHANGED << ohlcv, engine, snapshot, verdict >>

\* checkSignalHit answers callback t: lines 216-269, up to the next await or
\* to the end of the callback
CheckReturns(s, t, fetch) ==
    /\ s \in SignalIds
    /\ t \in ticks[s]
    /\ t.pc = "check"
    /\ LET sig == activeSignals[s]
           result == checkSignalHit(sig.side, sig.sl, sig.tp, 120, fetch)
           hist == Append(sig.monitorHistory, result.status)
       IN  IF result.status = "TP" \/ result.status = "SL"
           THEN /\ activeSignals' = [activeSignals EXCEPT
                        ![s].monitorHistory = hist,
                        ![s].status = result.status,
                        ![s].resolvedAt = now]
                /\ notices' = [notices EXCEPT ![s] = Append(@, result.status)]
                /\ ticks' = [ticks EXCEPT ![s] =
                        (@ \ {t}) \cup {[n |-> t.n, pc |-> "notify"]}]
           ELSE IF sig.monitorChecks >= maxChecks
           THEN /\ activeSignals' = [activeSignals EXCEPT
                        ![s].monitorHistory = hist,
                        ![s].status = "EXPIRED",
                        ![s].resolvedAt = now]
                /\ notices' = [notices EXCEPT ![s] = Append(@, "EXPIRED")]
                /\ ticks' = [ticks EXCEPT ![s] =
                        (@ \ {t}) \cup {[n |-> t.n, pc |-> "notify"]}]
           ELSE /\ activeSignals' = [activeSignals EXCEPT
                        ![s].monitorHistory = hist]
                /\ ticks' = [ticks EXCEPT ![s] = @ \ {t}]
                /\ UNCHANGED notices
    /\ UNCHANGED << now, sweeps, scanDue, scanInterval >>
    /\ UNCHANGED << market, hitArgs, hitResult, dupArgs, dupResult, load >>
    /\ UNCHANGED << ohlcv, engine, snapshot, verdict >>

\* the callback clearing the timers of all the signals
BroadcastReturns_ReleasesAll(s, t) ==
    /\ s \in SignalIds
    /\ t \in ticks[s]
    /\ t.pc = "notify"
    /\ activeSignals' = [i \in SignalIds |->
            [activeSignals[i] EXCEPT !.monitorInterval = "none"]]
    /\ ticks' = [ticks EXCEPT ![s] = @ \ {t}]
    /\ UNCHANGED << now, notices, sweeps, scanDue, scanInterval >>
    /\ UNCHANGED << market, hitArgs, hitResult, dupArgs, dupResult, load >>
    /\ UNCHANGED << ohlcv, engine, snapshot, verdict >>

\* broadcastToAllUsers answers callback t: lines 250-254 and 265-267
BroadcastReturns(s, t) ==
    /\ s \in SignalIds
    /\ t \in ticks[s]
    /\ t.pc = "notify"
    /\ activeSignals' = [activeSignals EXCEPT ![s].monitorInterval = "none"]
    /\ ticks' = [ticks EXCEPT ![s] = @ \ {t}]
    /\ UNCHANGED << now, notices, sweeps, scanDue, scanInterval >>
    /\ UNCHANGED << market, hitArgs, hitResult, dupArgs, dupResult, load >>
    /\ UNCHANGED << ohlcv, engine, snapshot, verdict >>

(***************************************************************************)
(* index.js: the timers and runAutoAnalysis                                 *)
(***************************************************************************)
\* Nothing is suspended at an await and no timer is waiting to be served
Quiescent ==
    /\ sweeps = {}
    /\ \A s \in SignalIds : ticks[s] = {}

\* One minute passes: every armed interval timer becomes due, and so does the
\* auto-analysis timer every scanInterval minutes. A due timer is served
\* before the next minute starts.
Advance(limit) ==
    /\ now < limit
    /\ ~scanDue
    /\ \A s \in SignalIds : activeSignals[s].monitorInterval # "due"
    /\ now' = now + 1
    /\ activeSignals' = [s \in SignalIds |->
            IF activeSignals[s].monitorInterval = "armed"
            THEN [activeSignals[s] EXCEPT !.monitorInterval = "due"]
            ELSE activeSignals[s]]
    /\ scanDue' = ((now + 1) % scanInterval = 0)
    /\ UNCHANGED << ticks, notices, sweeps, scanInterval >>
    /\ UNCHANGED << market, hitArgs, hitResult, dupArgs, dupResult, load >>
    /\ UNCHANGED << ohlcv, engine, snapshot, verdict >>

\* runAutoAnalysis is called by its timer and runs to its first await; coins
\* is the list it walks and cap bounds the passes suspended at once
runAutoAnalysis(coins, cap) ==
    /\ scanDue
    /\ Cardinality(sweeps) < cap
    /\ \A w \in sweeps : w.start # now
    /\ scanDue' = FALSE
    /\ sweeps' = IF Len(coins) = 0 THEN sweeps
                 ELSE sweeps \cup {[start |-> now, idx |-> 0, pc |-> "analyze"]}
    /\ UNCHANGED << now, activeSignals, ticks, notices, scanInterval >>
    /\ UNCHANGED << market, hitArgs, hitResult, dupArgs, dupResult, load >>
    /\ UNCHANGED << ohlcv, engine, snapshot, verdict >>

ScanFire == runAutoAnalysis(TARGET_COINS, MaxSweeps)

\* the pass leaving the loop after the coin it is at
NextCoinIn_LeavesTheLoop(coins, w) ==
    sweeps \ {w}

\* the for loop's next iteration, or the end of the pass
NextCoinIn(coins, w) ==
    IF w.idx + 1 < Len(coins)
    THEN (sweeps \ {w}) \cup {[start |-> w.start, idx |-> w.idx + 1, pc |-> "analyze"]}
    ELSE sweeps \ {w}

NextCoin(w) == NextCoinIn(TARGET_COINS, w)

\* analyzeSymbol answers pass w with res: lines 294-315, up to the await of
\* the broadcast, or to the next iteration's await
SweepAnalyzedIn(coins, w, res, maxSignals) ==
    /\ w \in sweeps
    /\ w.pc = "analyze"
    /\ LET coin == coins[w.idx + 1]
       IN  /\ res \in {NoCandidate} \cup {Candidate(coin, side) : side \in SIDES}
           /\ IF res.side # NULL /\ res.confidence >= 60
              THEN IF isDuplicateSignal(activeSignals, coin, res.side, now)
                   THEN /\ sweeps' = NextCoinIn(coins, w)
                        /\ UNCHANGED << activeSignals, ticks, notices >>
                   ELSE /\ Len(activeSignals) < maxSignals
                        /\ activeSignals' = registerSignal(activeSignals, res, now)
                        /\ ticks' = Append(ticks, {})
                        /\ notices' = Append(notices, << "NEW" >>)
                        /\ sweeps' = (sweeps \ {w}) \cup
                                {[start |-> w.start, idx |-> w.idx, pc |-> "broadcast"]}
              ELSE /\ sweeps' = NextCoinIn(coins, w)
                   /\ UNCHANGED << activeSignals, ticks, notices >>
    /\ UNCHANGED << now, scanDue, scanInterval >>
    /\ UNCHANGED << market, hitArgs, hitResult, dupArgs, dupResult, load >>
    /\ UNCHANGED << ohlcv, engine, snapshot, verdict >>

SweepAnalyzed(w, res, maxSignals) == SweepAnalyzedIn(TARGET_COINS, w, res, maxSignals)

\* the broadcast of a new signal and the pause after it end, or the broadcast
\* throws into the catch of the iteration: lines 315-324
SweepBroadcastIn(coins, w) ==
    /\ w \in sweeps
    /\ w.pc = "broadcast"
    /\ sweeps' = NextCoinIn(coins, w)
    /\ UNCHANGED << now, activeSignals, ticks, notices, scanDue, scanInterval >>
    /\ UNCHANGED << market, hitArgs, hitResult, dupArgs, dupResult, load >>
    /\ UNCHANGED << ohlcv, engine, snapshot, verdict >>

SweepBroadcast(w) == SweepBroadcastIn(TARGET_COINS, w)

(***************************************************************************)
(* The running system                                                       *)
(***************************************************************************)
IdleHitArgs == [side |-> NULL, sl |-> 0, tp |-> 0, lookbackMinutes |-> 0]
IdleHitResult == [status |-> "pending", idx |-> -1]
IdleDupArgs == [symbol |-> NULL, side |-> NULL]
IdleDupResult == [done |-> FALSE, value |-> FALSE]
IdleLoad == [pc |-> "idle", next |-> 0, asked |-> 0, contacted |-> << >>, answers |-> << >>,
             caller |-> NULL, limit |-> 0, candles |-> << >>, resumed |-> FALSE]

IdleEngine == [done |-> FALSE, rsiArr |-> << >>, bb_upper |-> << >>, bb_lower |-> << >>,
               vArr |-> << >>, aArr |-> << >>, atrArr |-> << >>]
IdleSnapshot == [fetchOk |-> FALSE, count |-> 0, rsi |-> NaN, close |-> NaN,
                 lowerBB |-> NaN, upperBB |-> NaN, acc |-> NaN, atr |-> NaN]
IdleVerdict == [done |-> FALSE, value |-> NoSignal]

\* no indicator computation and no analyzeSymbol call is under test
IdleAnalysis ==
    /\ ohlcv = << >>
    /\ engine = IdleEngine
    /\ snapshot = IdleSnapshot
    /\ verdict = IdleVerdict

IdlePure ==
    /\ market = << >>
    /\ hitArgs = IdleHitArgs
    /\ hitResult = IdleHitResult
    /\ dupArgs = IdleDupArgs
    /\ dupResult = IdleDupResult
    /\ load = IdleLoad
    /\ IdleAnalysis

\* after loadState on empty files; the first pass is scheduled 10 s ahead
InitSystem(intervals) ==
    /\ now = 0
    /\ activeSignals = << >>
    /\ ticks = << >>
    /\ notices = << >>
    /\ sweeps = {}
    /\ scanDue = TRUE
    /\ scanInterval \in intervals
    /\ IdlePure

AnalyzeAnswers ==
    {NoCandidate} \cup
    {Candidate(TARGET_COINS[i], side) : i \in 1 .. Len(TARGET_COINS), side \in SIDES}

\* Awaits take any time: a fetch or a broadcast may outlast timer periods
Init == InitSystem({1, 90})
Next ==
    \/ Advance(MaxTime)
    \/ \E s \in SignalIds : TimerFire(s, MaxInFlight)
    \/ \E s \in SignalIds : \E t \in ticks[s] : \E fetch \in Fetches :
            CheckReturns(s, t, fetch)
    \/ \E s \in SignalIds : \E t \in ticks[s] : BroadcastReturns(s, t)
    \/ ScanFire
    \/ \E w \in sweeps : \E res \in AnalyzeAnswers : SweepAnalyzed(w, res, MaxSignals)
    \/ \E w \in sweeps : SweepBroadcast(w)
Spec == Init /\ [][Next]_vars

\* Every await ends within the minute it started in
InitTimed == InitSystem({DEDUPE_WINDOW_MINUTES - 1, DEDUPE_WINDOW_MINUTES + 1})
NextTimed ==
    \/ Quiescent /\ Advance(Horizon)
    \/ \E s \in SignalIds : TimerFire(s, MaxInFlight)
    \/ \E s \in SignalIds : \E t \in ticks[s] : \E fetch \in Fetches :
            CheckReturns(s, t, fetch)
    \/ \E s \in SignalIds : \E t \in ticks[s] : BroadcastReturns(s, t)
    \/ ScanFire
    \/ \E w \in sweeps : \E res \in AnalyzeAnswers : SweepAnalyzed(w, res, TimedSignals)
    \/ \E w \in sweeps : SweepBroadcast(w)
SpecTimed == InitTimed /\ [][NextTimed]_vars

(***************************************************************************)
(* Claims about the monitor                                                 *)
(***************************************************************************)
TerminalNotices(s) ==
    { i \in 1 .. Len(notices[s]) : notices[s][i] \in TERMINAL }

\* C1: once a signal's status is TP, SL or EXPIRED, no step changes it.
C1_TerminalStatusIsFinal ==
    [][\A s \in SignalIds :
            activeSignals[s].status \in TERMINAL
                => activeSignals'[s].status = activeSignals[s].status]_vars

\* C2: a signal never has a callback that started its body (it incremented
\* monitorChecks and called checkSignalHit) while an earlier callback of the
\* same signal is still suspended: at most one callback is in flight.
C2_TicksAreSequential ==
    \A s \in SignalIds : Cardinality(ticks[s]) <= 1

\* C3: over the life of a signal at most one terminal notification (TP/SL
\* resolution or expiry) is handed to the broadcast.
C3_AtMostOneTerminalNotice ==
    \A s \in SignalIds : Cardinality(TerminalNotices(s)) <= 1

\* C4: a signal is EXPIRED only on a tick at which monitorChecks has reached
\* ceil(maxMonitorHours * 60 / tickIntervalMinutes) = 2880, never earlier.
ClaimedMaxChecks ==
    Ceil(MAX_MONITOR_HOURS * 60 * MsPerMinute, MONITOR_CHECK_INTERVAL_MS)

C4_ExpiresAtClaimedCeiling ==
    \A s \in SignalIds :
        activeSignals[s].status = "EXPIRED"
            => activeSignals[s].monitorChecks >= ClaimedMaxChecks

\* C5: a callback whose candle fetch failed leaves an OPEN signal OPEN,
\* whatever monitorChecks is.
FailedFetch == [ok |-> FALSE, series |-> << >>]

C5_FailedTickKeepsOpen ==
    [][\A s \in SignalIds : \A t \in ticks[s] :
            (activeSignals[s].status = "OPEN" /\ CheckReturns(s, t, FailedFetch))
                => activeSignals'[s].status = "OPEN"]_vars

\* C7: when the sweep generates a candidate for a symbol and side of which a
\* signal was registered DEDUPE_WINDOW_MINUTES - 1 minutes earlier, and no
\* check of that signal saw a candle touch its stop or target, the candidate
\* is rejected; when the only such signal was registered
\* DEDUPE_WINDOW_MINUTES + 1 minutes earlier, the candidate is registered.
Untouched(sig) ==
    \A k \in 1 .. Len(sig.monitorHistory) : sig.monitorHistory[k] = NULL

Earlier(res, age) ==
    { i \in SignalIds : /\ activeSignals[i].symbol = res.symbol
                        /\ activeSignals[i].side = res.side
                        /\ Untouched(activeSignals[i])
                        /\ now - activeSignals[i].createdAt = age }

SameKind(res) ==
    { i \in SignalIds : /\ activeSignals[i].symbol = res.symbol
                        /\ activeSignals[i].side = res.side }

C7_DedupAroundTheWindow ==
    [][\A w \in sweeps : \A res \in AnalyzeAnswers \ {NoCandidate} :
            SweepAnalyzed(w, res, TimedSignals) =>
                /\ Earlier(res, DEDUPE_WINDOW_MINUTES - 1) # {}
                        => activeSignals' = activeSignals
                /\ (/\ Earlier(res, DEDUPE_WINDOW_MINUTES + 1) # {}
                    /\ SameKind(res) = Earlier(res, DEDUPE_WINDOW_MINUTES + 1))
                        => Len(activeSignals') = Len(activeSignals) + 1]_vars

\* C18: a callback that starts while its signal is not OPEN only stops the
\* timer: status, resolvedAt, monitorChecks and monitorHistory stay as they
\* are, no check is started and nothing is broadcast; stopping the stopped
\* timer again changes nothing.
C18_ClosedTickOnlyStops ==
    [][\A s \in SignalIds :
            (activeSignals[s].status # "OPEN" /\ TimerFire(s, MaxInFlight)) =>
                /\ activeSignals'[s] = [activeSignals[s] EXCEPT !.monitorInterval = "none"]
                /\ [activeSignals'[s] EXCEPT !.monitorInterval = "none"] = activeSignals'[s]
                /\ ticks' = ticks
                /\ notices' = notices]_vars

\* the timer of a resolved signal was stopped by the callback of the second
\* minute while the only callback that ran a check is still broadcasting
C18_Witness ==
    \E s \in SignalIds :
        /\ activeSignals[s].status \in TERMINAL
        /\ activeSignals[s].monitorChecks = 1
        /\ activeSignals[s].monitorInterval = "none"
        /\ ticks[s] = {[n |-> 1, pc |-> "notify"]}
        /\ now = 2

\* C19: monitorHistory never has more entries than monitorChecks, and when a
\* callback has completed (it has left the callbacks in flight) the two are
\* equal.
C19_HistoryMatchesChecks ==
    /\ [](\A s \in SignalIds :
            Len(activeSignals[s].monitorHistory) <= activeSignals[s].monitorChecks)
    /\ [][\A s \in SignalIds :
            (ticks'[s] # ticks[s] /\ ticks'[s] \subseteq ticks[s]) =>
                Len(activeSignals'[s].monitorHistory) = activeSignals'[s].monitorChecks]_vars

\* C20: a callback whose check answers TP or SL gives the signal that status
\* and broadcasts that result and no expiry, also at the ceiling; a signal
\* becomes EXPIRED only in a callback whose check answered 'not yet' with
\* monitorChecks at the ceiling; when a result or an expiry is broadcast,
\* status and resolvedAt are already set and the timer is not yet stopped,
\* and it is stopped when the broadcast has returned.
C20_ResolutionBeforeExpiry ==
    /\ [](\A s \in SignalIds :
            TerminalNotices(s) # {} =>
                /\ activeSignals[s].status \in TERMINAL
                /\ activeSignals[s].resolvedAt # NoTime)
    /\ [][\A s \in SignalIds : \A t \in ticks[s] : \A fetch \in Fetches :
            CheckReturns(s, t, fetch) =>
                LET sig == activeSignals[s]
                    r == checkSignalHit(sig.side, sig.sl, sig.tp, 120, fetch).status
                IN  /\ r \in {"TP", "SL"} =>
                        /\ activeSignals'[s].status = r
                        /\ activeSignals'[s].resolvedAt = now
                        /\ notices'[s] = Append(notices[s], r)
                    /\ activeSignals'[s].status = "EXPIRED" =>
                        /\ r = NULL
                        /\ sig.monitorChecks >= maxChecks
                        /\ notices'[s] = Append(notices[s], "EXPIRED")
                    /\ activeSignals'[s].monitorInterval = sig.monitorInterval]_vars
    /\ [][\A s \in SignalIds : \A t \in ticks[s] :
            BroadcastReturns(s, t) =>
                /\ activeSignals[s].status \in TERMINAL
                /\ activeSignals'[s].monitorInterval = "none"]_vars

\* the check at the ceiling answered TP: the signal is TP and one result was
\* broadcast
C20_Witness ==
    \E s \in SignalIds :
        /\ activeSignals[s].monitorChecks = maxChecks
        /\ Len(activeSignals[s].monitorHistory) = maxChecks
        /\ activeSignals[s].status = "TP"
        /\ activeSignals[s].resolvedAt = now
        /\ notices[s] = << "NEW", "TP" >>

(***************************************************************************)
(* checkSignalHit on its own: every short series of 1m candles              *)
(***************************************************************************)
MaxCandles == 2     \* candles in the provider's series

\* the candles of the grid, and the two of the documented double touch
HitCandles == Candles \cup
    { [low |-> 95, high |-> 115, close |-> 112],
      [low |-> 95, high |-> 115, close |-> 98] }

SeriesUpTo(n) == UNION { [1 .. k -> HitCandles] : k \in 0 .. n }

\* series one candle longer than the smallest limit, which the lookback cuts
\* in which at most MaxMoves candles leave the quiet range
MaxMoves == 3
LongSeries ==
    { m \in [1 .. LookbackLimit(0) + 1 -> {QuietCandle, SpikeCandle, DropCandle}] :
        Cardinality({ k \in DOMAIN m : m[k] # QuietCandle }) <= MaxMoves }

Lookbacks == {1, 120, 2000}

HitInputs ==
    { [side |-> "LONG", sl |-> 100, tp |-> 110, lookbackMinutes |-> lb, fetchOk |-> ok] :
            lb \in Lookbacks, ok \in BOOLEAN } \cup
    { [side |-> "SHORT", sl |-> 110, tp |-> 100, lookbackMinutes |-> lb, fetchOk |-> ok] :
            lb \in Lookbacks, ok \in BOOLEAN }

IdleSystem ==
    /\ now = 0
    /\ activeSignals = << >>
    /\ ticks = << >>
    /\ notices = << >>
    /\ sweeps = {}
    /\ scanDue = FALSE
    /\ scanInterval = 90

InitHit ==
    /\ IdleSystem
    /\ market \in SeriesUpTo(MaxCandles) \cup LongSeries
    /\ hitArgs \in HitInputs
    /\ hitResult = IdleHitResult
    /\ dupArgs = IdleDupArgs
    /\ dupResult = IdleDupResult
    /\ load = IdleLoad
    /\ IdleAnalysis

CallCheckSignalHit ==
    /\ hitResult.status = "pending"
    /\ hitResult' = checkSignalHit(hitArgs.side, hitArgs.sl, hitArgs.tp,
                        hitArgs.lookbackMinutes,
                        [ok |-> hitArgs.fetchOk, series |-> market])
    /\ UNCHANGED << now, activeSignals, ticks, notices, sweeps, scanDue, scanInterval >>
    /\ UNCHANGED << market, hitArgs, dupArgs, dupResult, load >>
    /\ UNCHANGED << ohlcv, engine, snapshot, verdict >>

NextHit == CallCheckSignalHit
SpecHit == InitHit /\ [][NextHit]_vars

\* what the claims say a candle touches
TouchesTP(side, tp, c) == IF side = "LONG" THEN c.high >= tp ELSE c.low <= tp
TouchesSL(side, sl, c) == IF side = "LONG" THEN c.low <= sl ELSE c.high >= sl
Touches(a, c) == TouchesTP(a.side, a.tp, c) \/ TouchesSL(a.side, a.sl, c)

\* the candles a call with this lookback is served, and how many older
\* candles of the series it is not served
FetchedWith(lb) == Klines(market, LookbackLimit(lb))
CutOff(lb) == Len(market) - Len(FetchedWith(lb))
Fetched == FetchedWith(hitArgs.lookbackMinutes)

\* the positions (1-based) of the fetched candles that touch a bound
TouchingPositions == { k \in 1 .. Len(Fetched) : Touches(hitArgs, Fetched[k]) }
FirstTouch == CHOOSE k \in TouchingPositions : \A j \in TouchingPositions : k <= j
HitDone == hitResult.status # "pending" /\ hitArgs.fetchOk

C9_CloseBreaksTheTie ==
    (HitDone /\ TouchingPositions # {}) =>
        LET c == Fetched[FirstTouch]
        IN  (TouchesTP(hitArgs.side, hitArgs.tp, c) /\ TouchesSL(hitArgs.side, hitArgs.sl, c))
                => hitResult.status =
                        IF hitArgs.side = "LONG"
                        THEN (IF c.close >= hitArgs.tp THEN "TP" ELSE "SL")
                        ELSE (IF c.close <= hitArgs.tp THEN "TP" ELSE "SL")

\* the documented case: LONG, stop 100, target 110, candle 95..115 closing
\* at 98 resolves SL
C9_Witness ==
    /\ HitDone
    /\ hitArgs.side = "LONG" /\ hitArgs.sl = 100 /\ hitArgs.tp = 110
    /\ market = << [low |-> 95, high |-> 115, close |-> 98] >>
    /\ hitResult = [status |-> "SL", idx |-> 0]

(***************************************************************************)
(* isDuplicateSignal on its own: every small collection loadState may read  *)
(***************************************************************************)
MaxListed == 2      \* signals in the collection

DedupSymbols == {"BTCUSDT", "ETHUSDT"}
DedupStatuses == {"OPEN", "PENDING", "TP", "SL", "EXPIRED"}
DedupCreated == {0, 1}
DedupNows == {DEDUPE_WINDOW_MINUTES, DEDUPE_WINDOW_MINUTES + 1}

\* a record of signals.json; init restarts the monitor of an OPEN one
ListedSignal(symbol, side, status, createdAt) ==
    [ NewSignal(Candidate(symbol, side), createdAt) EXCEPT
        !.status = status,
        !.resolvedAt = IF status \in TERMINAL THEN createdAt ELSE NoTime,
        !.monitorInterval = IF status = "OPEN" THEN "armed" ELSE "none" ]

ListedSignals ==
    { ListedSignal(sym, side, st, c) :
        sym \in DedupSymbols, side \in SIDES, st \in DedupStatuses, c \in DedupCreated }

InitDedup ==
    /\ now \in DedupNows
    /\ activeSignals \in UNION { [1 .. k -> ListedSignals] : k \in 0 .. MaxListed }
    /\ ticks = [i \in 1 .. Len(activeSignals) |-> {}]
    /\ notices = [i \in 1 .. Len(activeSignals) |-> << >>]
    /\ sweeps = {}
    /\ scanDue = FALSE
    /\ scanInterval = 90
    /\ market = << >>
    /\ hitArgs = IdleHitArgs
    /\ hitResult = IdleHitResult
    /\ dupArgs \in [symbol : {"BTCUSDT"}, side : SIDES]
    /\ dupResult = IdleDupResult
    /\ load = IdleLoad
    /\ IdleAnalysis

CallIsDuplicateSignal ==
    /\ ~dupResult.done
    /\ dupResult' = [done |-> TRUE,
                     value |-> isDuplicateSignal(activeSignals, dupArgs.symbol,
                                                 dupArgs.side, now)]
    /\ UNCHANGED << now, activeSignals, ticks, notices, sweeps, scanDue, scanInterval >>
    /\ UNCHANGED << market, hitArgs, hitResult, dupArgs, load >>
    /\ UNCHANGED << ohlcv, engine, snapshot, verdict >>

NextDedup == CallIsDuplicateSignal
SpecDedup == InitDedup /\ [][NextDedup]_vars

\* C6: isDuplicateSignal(symbol, side) is true iff some signal of the
\* collection has this symbol and this side, is OPEN or PENDING, and is at
\* most DEDUPE_WINDOW_MINUTES old; the other side, a terminal status or a
\* greater age never make it true.
Blocking(symbol, side) ==
    { i \in SignalIds : /\ activeSignals[i].symbol = symbol
                        /\ activeSignals[i].side = side
                        /\ activeSignals[i].status \in {"OPEN", "PENDING"}
                        /\ now - activeSignals[i].createdAt <= DEDUPE_WINDOW_MINUTES }

C6_DuplicateIffBlocking ==
    dupResult.done =>
        (dupResult.value <=> Blocking(dupArgs.symbol, dupArgs.side) # {})

\* a SHORT is asked for while a LONG on the same symbol is OPEN within the
\* window, and it is not a duplicate
C6_Witness ==
    /\ dupResult.done
    /\ ~dupResult.value
    /\ dupArgs.side = "SHORT"
    /\ Blocking(dupArgs.symbol, "LONG") # {}
    /\ \E i \in SignalIds : /\ activeSignals[i].symbol = dupArgs.symbol
                            /\ activeSignals[i].side = "SHORT"
                            /\ activeSignals[i].status = "OPEN"
                            /\ now - activeSignals[i].createdAt > DEDUPE_WINDOW_MINUTES

(***************************************************************************)
(* analysis.js: loadCandles                                                 *)
(***************************************************************************)
DATA_SOURCES ==
    << [name |-> "Binance Main", priority |-> 1],
       [name |-> "Binance Futures (fapi) fallback", priority |-> 2],
       [name |-> "Bybit Backup", priority |-> 3] >>

\* Array.prototype.sort((a, b) => a.priority - b.priority): insertion of x
\* into a list already in order, after the entries that do not exceed it
RECURSIVE InsertByPriority(_, _)
InsertByPriority(x, sorted) ==
    IF sorted = << >> THEN << x >>
    ELSE IF x.priority < Head(sorted).priority THEN << x >> \o sorted
    ELSE << Head(sorted) >> \o InsertByPriority(x, Tail(sorted))

RECURSIVE SortByPriority(_)
SortByPriority(list) ==
    IF list = << >> THEN << >>
    ELSE InsertByPriority(list[Len(list)], SortByPriority(SubSeq(list, 1, Len(list) - 1)))

\* what one provider attempt may end in
Answers == { "candles",      \* 200 and a payload that normalizes to candles
             "empty",        \* 200 and a payload of no records
             "nodata",       \* 200 and no body
             "not200",       \* a 2xx status other than 200
             "malformed",    \* a body the normalization throws on
             "timeout",      \* axios rejects: timeout, network, 4xx, 5xx
             "ratelimited" } \* axios rejects with status 418 or 429

\* the attempt ends in `continue` without entering the catch block
SkipsQuietly(answer) == answer \in {"empty", "nodata", "not200"}
\* the attempt ends in the catch block
Throws(answer) == answer \in {"malformed", "timeout", "ratelimited"}
\* the check of candles.length left out
Returns_EvenEmpty(answer) == answer \in {"candles", "empty"}
\* the attempt ends in `return candles`
Returns(answer) == answer = "candles"

MaxCalls == 1       \* loadCandles calls followed
MaxRecords == 2     \* records in a provider's payload

\* const sources = DATA_SOURCES.slice().sort(...)
sources == SortByPriority(DATA_SOURCES)

\* source.name.includes('Bybit')
IsBybit(source) == source.name = "Bybit Backup"

\* Array.prototype.sort((a, b) => a.t - b.t), which is stable
RECURSIVE InsertByTime(_, _)
InsertByTime(x, sorted) ==
    IF sorted = << >> THEN << x >>
    ELSE IF x.t < Head(sorted).t THEN << x >> \o sorted
    ELSE << Head(sorted) >> \o InsertByTime(x, Tail(sorted))

RECURSIVE SortByTime(_)
SortByTime(list) ==
    IF list = << >> THEN << >>
    ELSE InsertByTime(list[Len(list)], SortByTime(SubSeq(list, 1, Len(list) - 1)))

\* lines 64-107: the Bybit branch maps and sorts, the Binance branch maps
Normalize(source, payload) ==
    IF IsBybit(source) THEN SortByTime(payload) ELSE payload

\* the two callers and the limits each may ask for: line 192, lines 292-293
Callers == {"analyzeSymbol", "checkSignalHit"}
LimitsOf(caller) ==
    IF caller = "analyzeSymbol" THEN {200}
    ELSE { LookbackLimit(lb) : lb \in {1, 120, 2000} }

\* both callers wrap the call in try/catch: lines 191/281 and 290/327
Catches_OnlyTheMonitor(caller) == caller = "checkSignalHit"
Catches(caller) == caller \in Callers

\* the records of a payload: an open time and a candle
Record(t, c) == [t |-> t, low |-> c.low, high |-> c.high, close |-> c.close]
Records == { Record(t, c) : t \in 1 .. MaxRecords, c \in {QuietCandle, SpikeCandle} }

\* a payload of one record more than the smallest limit
Oversized == [k \in 1 .. LookbackLimit(0) + 1 |-> Record(k, QuietCandle)]

\* the payloads with records a provider may answer
Payloads == UNION { [1 .. k -> Records] : k \in 1 .. MaxRecords } \cup {Oversized}

\* the signal the monitor of this call is watching
Watched == Candidate(TARGET_COINS[1], "LONG")

InitLoad ==
    /\ IdleSystem
    /\ market = << >>
    /\ hitArgs = IdleHitArgs
    /\ hitResult = IdleHitResult
    /\ dupArgs = IdleDupArgs
    /\ dupResult = IdleDupResult
    /\ load = IdleLoad
    /\ IdleAnalysis

\* loadCandles is called: the sources are sorted and the loop starts
LoadCall(caller, limit) ==
    /\ \/ load.pc = "idle"
       \/ load.pc \in {"returned", "thrown"} /\ load.resumed
    /\ load.asked < MaxCalls
    /\ caller \in Callers
    /\ limit \in LimitsOf(caller)
    /\ load' = [pc |-> "request", next |-> 1, asked |-> load.asked + 1,
                contacted |-> << >>, answers |-> << >>,
                caller |-> caller, limit |-> limit,
                candles |-> << >>, resumed |-> FALSE]
    /\ UNCHANGED << now, activeSignals, ticks, notices, sweeps, scanDue, scanInterval >>
    /\ UNCHANGED << market, hitArgs, hitResult, dupArgs, dupResult >>
    /\ UNCHANGED << ohlcv, engine, snapshot, verdict >>

\* the loop leaves one source: the next one, or the throw after the last
AfterSource(l) ==
    IF l.next < Len(sources)
    THEN [l EXCEPT !.pc = "request", !.next = l.next + 1]
    ELSE [l EXCEPT !.pc = "thrown"]

\* axios.get is called on the current source: lines 48-55
LoadRequest ==
    /\ load.pc = "request"
    /\ load' = [load EXCEPT !.pc = "await",
                            !.contacted = Append(@, sources[load.next])]
    /\ UNCHANGED << now, activeSignals, ticks, notices, sweeps, scanDue, scanInterval >>
    /\ UNCHANGED << market, hitArgs, hitResult, dupArgs, dupResult >>
    /\ UNCHANGED << ohlcv, engine, snapshot, verdict >>

\* the request ends: lines 57-119
LoadAnswer(answer) ==
    /\ load.pc = "await"
    /\ answer \in Answers
    /\ LET l == [load EXCEPT !.answers = Append(@, answer)]
       IN  IF Returns(answer)
           THEN \E payload \in Payloads :
                    load' = [l EXCEPT !.pc = "returned",
                                      !.candles = Normalize(sources[load.next], payload)]
           ELSE load' = IF SkipsQuietly(answer) THEN AfterSource(l)
                        ELSE IF answer = "ratelimited" THEN [l EXCEPT !.pc = "backoff"]
                        ELSE AfterSource(l)
    /\ UNCHANGED << now, activeSignals, ticks, notices, sweeps, scanDue, scanInterval >>
    /\ UNCHANGED << market, hitArgs, hitResult, dupArgs, dupResult >>
    /\ UNCHANGED << ohlcv, engine, snapshot, verdict >>

\* the 3 s backoff after a rate limit ends: lines 115-118
LoadBackoff ==
    /\ load.pc = "backoff"
    /\ load' = AfterSource(load)
    /\ UNCHANGED << now, activeSignals, ticks, notices, sweeps, scanDue, scanInterval >>
    /\ UNCHANGED << market, hitArgs, hitResult, dupArgs, dupResult >>
    /\ UNCHANGED << ohlcv, engine, snapshot, verdict >>

\* the caller's await of loadCandles ends, with candles or with the error
CallerResumes ==
    /\ load.pc \in {"returned", "thrown"}
    /\ ~load.resumed
    /\ LET loaded == [ok |-> load.pc = "returned", candles |-> load.candles]
       IN  IF ~loaded.ok /\ ~Catches(load.caller)
           THEN /\ load' = [load EXCEPT !.pc = "escaped"]
                /\ UNCHANGED << hitResult, verdict >>
           ELSE /\ load' = [load EXCEPT !.resumed = TRUE]
                /\ IF load.caller = "analyzeSymbol"
                   THEN /\ verdict' = [done |-> TRUE,
                                       value |-> analyzeSymbol(TARGET_COINS[1], loaded)]
                        /\ UNCHANGED hitResult
                   ELSE /\ hitResult' = checkSignalHitOn(Watched.side, Watched.sl,
                                                         Watched.tp, loaded)
                        /\ UNCHANGED verdict
    /\ UNCHANGED << now, activeSignals, ticks, notices, sweeps, scanDue, scanInterval >>
    /\ UNCHANGED << market, hitArgs, dupArgs, dupResult, ohlcv, engine, snapshot >>

NextLoad ==
    \/ \E caller \in Callers : \E limit \in LimitsOf(caller) : LoadCall(caller, limit)
    \/ LoadRequest
    \/ \E answer \in Answers : LoadAnswer(answer)
    \/ LoadBackoff
    \/ CallerResumes
SpecLoad == InitLoad /\ [][NextLoad]_vars

\* C10: within one call the providers are contacted in ascending priority, a
\* provider only after every provider of higher priority has failed in this
\* call, and none after one has succeeded.
Failed(answer) == answer \in Answers \ {"candles"}

C10_PriorityOrderFirstSuccess ==
    /\ Len(load.answers) <= Len(load.contacted)
    /\ Len(load.contacted) <= Len(load.answers) + 1
    /\ \A i \in 1 .. Len(load.contacted) :
        \* the i-th contact is the provider of the i-th lowest priority number
        /\ Cardinality({ j \in 1 .. Len(DATA_SOURCES) :
                DATA_SOURCES[j].priority <= load.contacted[i].priority }) = i
        \* and every provider contacted before it has failed
        /\ \A j \in 1 .. (i - 1) : Failed(load.answers[j])
    /\ load.pc = "returned" =>
        /\ Len(load.answers) = Len(load.contacted)
        /\ load.answers[Len(load.answers)] = "candles"
    /\ load.pc = "thrown" =>
        /\ Len(load.contacted) = Len(DATA_SOURCES)
        /\ \A j \in 1 .. Len(load.answers) : Failed(load.answers[j])

\* the third provider answers after the two before it failed
C10_Witness ==
    /\ load.pc = "returned"
    /\ Len(load.contacted) = 3
    /\ load.contacted[3].name = "Bybit Backup"
    /\ load.answers[1] = "ratelimited"
    /\ load.answers[2] = "empty"

\* C11: when every provider has failed, loadCandles throws and returns no
\* candles; the caller catches the error: analyzeSymbol answers no signal and
\* checkSignalHit answers 'not yet' (status null), and the error leaves
\* neither of them.
C11_AllFailedIsTransient ==
    /\ load.pc # "escaped"
    /\ load.pc = "thrown" =>
        /\ load.candles = << >>
        /\ Len(load.answers) = Len(DATA_SOURCES)
        /\ \A j \in 1 .. Len(load.answers) : Failed(load.answers[j])
        /\ load.resumed =>
            /\ load.caller = "analyzeSymbol" => verdict = [done |-> TRUE, value |-> NoSignal]
            /\ load.caller = "checkSignalHit" => hitResult = NoHit
    /\ (\A j \in 1 .. Len(load.answers) : Failed(load.answers[j])) =>
            load.pc # "returned"

\* analyzeSymbol has resumed from a call in which the three providers failed
C11_Witness ==
    /\ load.pc = "thrown"
    /\ load.resumed
    /\ load.caller = "analyzeSymbol"
    /\ load.answers = << "timeout", "ratelimited", "malformed" >>
    /\ verdict.done
    /\ verdict.value.side = NULL

\* C12: the candles loadCandles returns are in ascending order of open time
\* and are at most `limit` many, whichever provider served them and whatever
\* the order and the number of the records of its payload.
Ascending(list) ==
    \A k \in 1 .. Len(list) - 1 : list[k].t <= list[k + 1].t

C12_AscendingWithinLimit ==
    load.pc = "returned" =>
        /\ Ascending(load.candles)
        /\ Len(load.candles) <= load.limit

(***************************************************************************)
(* analyzeSymbol on its own: the values it may read at the latest index     *)
(***************************************************************************)
RsiValues == {NaN, Num(25), Num(30), Num(50), Num(70), Num(75)}
CloseValues == {Num(95), Num(98), Num(102), Num(105)}
LowerValues == {NaN, Num(98)}
UpperValues == {NaN, Num(102)}
AccValues == {NaN, Rat(3, 10), Num(0), Rat(-3, 10), Num(8), Num(-8)}
\* the true range of a candle is never negative, and an ATR of 0 means 14
\* candles of one price, for which the close is on neither side of the bands
AtrValues == {NaN, Num(2), Rat(1, 2)}
\* ohlcv.length on either side of the minimum of 30
CandleCounts == {29, 30}

Snapshots ==
    [ fetchOk : BOOLEAN, count : CandleCounts, rsi : RsiValues, close : CloseValues,
      lowerBB : LowerValues, upperBB : UpperValues, acc : AccValues, atr : AtrValues ]

InitAnalyze ==
    /\ IdleSystem
    /\ market = << >>
    /\ hitArgs = IdleHitArgs
    /\ hitResult = IdleHitResult
    /\ dupArgs = IdleDupArgs
    /\ dupResult = IdleDupResult
    /\ load = IdleLoad
    /\ ohlcv = << >>
    /\ engine = IdleEngine
    /\ snapshot \in Snapshots
    /\ verdict = IdleVerdict

\* what analyzeSymbol answers when it has read the values of s
Answer(s) ==
    analyzeSymbolOn(TARGET_COINS[1], [ok |-> s.fetchOk, count |-> s.count], s)

CallAnalyzeSymbol ==
    /\ ~verdict.done
    /\ verdict' = [done |-> TRUE, value |-> Answer(snapshot)]
    /\ UNCHANGED << now, activeSignals, ticks, notices, sweeps, scanDue, scanInterval >>
    /\ UNCHANGED << market, hitArgs, hitResult, dupArgs, dupResult, load >>
    /\ UNCHANGED << ohlcv, engine, snapshot >>

NextAnalyze == CallAnalyzeSymbol
SpecAnalyze == InitAnalyze /\ [][NextAnalyze]_vars

\* the three conditions of each side, as the claims state them
RsiLow(s) == RatLT(s.rsi, Num(30))
BelowBand(s) == RatLT(s.close, s.lowerBB)
Speeding(s) == RatLT(Num(0), s.acc)
RsiHigh(s) == RatLT(Num(70), s.rsi)
AboveBand(s) == RatLT(s.upperBB, s.close)
Slowing(s) == RatLT(s.acc, Num(0))

\* C13: the answer is LONG only if rsi < 30, close < lower band and
\* acceleration > 0 all hold, SHORT only if rsi > 70, close > upper band and
\* acceleration < 0 all hold, and no signal otherwise; from inputs that give a
\* side, replacing the rsi, the close or the acceleration alone by a value
\* that violates its condition gives no signal.
C13_SideNeedsAllThree ==
    verdict.done =>
        LET side == verdict.value.side
        IN  /\ side = "LONG" => RsiLow(snapshot) /\ BelowBand(snapshot) /\ Speeding(snapshot)
            /\ side = "SHORT" => RsiHigh(snapshot) /\ AboveBand(snapshot) /\ Slowing(snapshot)
            /\ (/\ ~(RsiLow(snapshot) /\ BelowBand(snapshot) /\ Speeding(snapshot))
                /\ ~(RsiHigh(snapshot) /\ AboveBand(snapshot) /\ Slowing(snapshot)))
                    => side = NULL
            /\ side = "LONG" =>
                /\ \A r \in RsiValues : LET s == [snapshot EXCEPT !.rsi = r]
                                        IN  ~RsiLow(s) => Answer(s).side = NULL
                /\ \A c \in CloseValues : LET s == [snapshot EXCEPT !.close = c]
                                          IN  ~BelowBand(s) => Answer(s).side = NULL
                /\ \A a \in AccValues : LET s == [snapshot EXCEPT !.acc = a]
                                        IN  ~Speeding(s) => Answer(s).side = NULL
            /\ side = "SHORT" =>
                /\ \A r \in RsiValues : LET s == [snapshot EXCEPT !.rsi = r]
                                        IN  ~RsiHigh(s) => Answer(s).side = NULL
                /\ \A c \in CloseValues : LET s == [snapshot EXCEPT !.close = c]
                                          IN  ~AboveBand(s) => Answer(s).side = NULL
                /\ \A a \in AccValues : LET s == [snapshot EXCEPT !.acc = a]
                                        IN  ~Slowing(s) => Answer(s).side = NULL

\* a SHORT was answered, and the same values with the close on the upper band
\* give no signal
C13_Witness ==
    /\ verdict.done
    /\ verdict.value.side = "SHORT"
    /\ snapshot.rsi = Num(75)
    /\ snapshot.close = Num(105)
    /\ Answer([snapshot EXCEPT !.close = Num(102)]).side = NULL

\* C14: a candidate's entry is the latest close; a LONG has its stop 1.5 ATR
\* below and its target 3 ATR above the entry, a SHORT has them mirrored, so
\* stop and target lie on opposite sides of the entry, and the reported
\* riskReward is 2.0 and greater than 0.
C14_StopTargetRiskReward ==
    (verdict.done /\ verdict.value.side # NULL) =>
        LET v == verdict.value
            atr == snapshot.atr
        IN  /\ v.entry = snapshot.close
            /\ v.side = "LONG" =>
                /\ v.sl = RatSub(v.entry, RatMul(Rat(3, 2), atr))
                /\ v.tp = RatAdd(v.entry, RatMul(Num(3), atr))
                /\ RatLT(v.sl, v.entry) /\ RatLT(v.entry, v.tp)
            /\ v.side = "SHORT" =>
                /\ v.sl = RatAdd(v.entry, RatMul(Rat(3, 2), atr))
                /\ v.tp = RatSub(v.entry, RatMul(Num(3), atr))
                /\ RatLT(v.tp, v.entry) /\ RatLT(v.entry, v.sl)
            /\ v.rr = Num(2)
            /\ RatLT(Num(0), v.rr)

\* the documented case: RSI 25, close 95, lower band 98, acceleration +0.3,
\* ATR 2 gives LONG, entry 95, stop 92, target 101, riskReward 2.0
C14_Witness ==
    /\ verdict.done
    /\ snapshot.rsi = Num(25) /\ snapshot.close = Num(95)
    /\ snapshot.lowerBB = Num(98) /\ snapshot.acc = Rat(3, 10)
    /\ snapshot.atr = Num(2)
    /\ verdict.value.side = "LONG"
    /\ verdict.value.entry = Num(95)
    /\ verdict.value.sl = Num(92)
    /\ verdict.value.tp = Num(101)
    /\ verdict.value.rr = Num(2)

(***************************************************************************)
(* The indicator functions on their own: series of up to BB_LENGTH candles  *)
(***************************************************************************)
MaxTurns == 2       \* price moves in a series

BasePrice == 100
MaxCandlesIn == BB_LENGTH

\* a move is a change of one price unit at the candle of index pos >= 1;
\* pos 0 is no move; the moves of a series are listed by index
Moves ==
    { m \in [1 .. MaxTurns -> [pos : 0 .. MaxCandlesIn - 1, d : {-1, 1}]] :
        \A j \in 1 .. MaxTurns - 1 :
            \/ m[j].pos < m[j + 1].pos
            \/ m[j].pos = m[j + 1].pos /\ m[j].d <= m[j + 1].d }

RECURSIVE MoveAt(_, _, _)
MoveAt(moves, i, k) ==
    IF k = 0 THEN 0
    ELSE MoveAt(moves, i, k - 1) + (IF moves[k].pos = i THEN moves[k].d ELSE 0)

\* candle i opens at the close before it and has no wicks
RECURSIVE Extend(_, _, _)
Extend(series, moves, n) ==
    IF Len(series) >= n THEN series
    ELSE LET i == Len(series)
             open == IF i = 0 THEN BasePrice ELSE series[i].close
             close == IF i = 0 THEN BasePrice ELSE open + MoveAt(moves, i, Len(moves))
         IN  Extend(Append(series, [low |-> Min(open, close),
                                    high |-> Max(open, close),
                                    close |-> close]),
                    moves, n)

SeriesOf(n, moves) == Extend(<< >>, moves, n)

FullSeries == { SeriesOf(MaxCandlesIn, m) : m \in Moves }
EngineSeries == { SubSeq(full, 1, n) : full \in FullSeries, n \in 0 .. MaxCandlesIn }

InitEngine ==
    /\ IdleSystem
    /\ market = << >>
    /\ hitArgs = IdleHitArgs
    /\ hitResult = IdleHitResult
    /\ dupArgs = IdleDupArgs
    /\ dupResult = IdleDupResult
    /\ load = IdleLoad
    /\ ohlcv \in EngineSeries
    /\ engine = IdleEngine
    /\ snapshot = IdleSnapshot
    /\ verdict = IdleVerdict

\* the indicator arrays are computed: lines 197-231
ComputeIndicators ==
    /\ ~engine.done
    /\ engine' = LET ind == Indicators(ohlcv)
                 IN  [done |-> TRUE, rsiArr |-> ind.rsiArr,
                      bb_upper |-> ind.bb_upper, bb_lower |-> ind.bb_lower,
                      vArr |-> ind.vArr, aArr |-> ind.aArr, atrArr |-> ind.atrArr]
    /\ UNCHANGED << now, activeSignals, ticks, notices, sweeps, scanDue, scanInterval >>
    /\ UNCHANGED << market, hitArgs, hitResult, dupArgs, dupResult, load >>
    /\ UNCHANGED << ohlcv, snapshot, verdict >>

NextEngine == ComputeIndicators
SpecEngine == InitEngine /\ [][NextEngine]_vars

Closes == [k \in 1 .. Len(ohlcv) |-> ohlcv[k].close]
Indices == 0 .. Len(ohlcv) - 1
Defined(x) == ~isNaN(x)

\* C15: at every index from RSI_LENGTH on at which the smoothed average loss
\* is 0, the RSI value is 100.
C15_NoLossIsHundred ==
    engine.done =>
        \A i \in Indices :
            (i >= RSI_LENGTH /\ Averages(Deltas(Closes), RSI_LENGTH, i).loss = 0)
                => engine.rsiArr[i + 1] = Num(100)

\* C16: at every index i, RSI is defined iff i >= RSI_LENGTH, both Bollinger
\* bounds iff i >= BB_LENGTH - 1, ATR iff i >= ATR_LENGTH, and velocity and
\* acceleration only if i >= V_SMA, i.e. once V_SMA + 1 candles exist.
C16_DefinedIffEnoughHistory ==
    engine.done =>
        \A i \in Indices :
            /\ Defined(engine.rsiArr[i + 1]) <=> i >= RSI_LENGTH
            /\ Defined(engine.bb_upper[i + 1]) <=> i >= BB_LENGTH - 1
            /\ Defined(engine.bb_lower[i + 1]) <=> i >= BB_LENGTH - 1
            /\ Defined(engine.atrArr[i + 1]) <=> i >= ATR_LENGTH
            /\ Defined(engine.vArr[i + 1]) => i >= V_SMA
            /\ Defined(engine.aArr[i + 1]) => i >= V_SMA

\* C17: every defined RSI value lies in [0, 100], and where both Bollinger
\* bounds are defined the upper one is not below the lower one.
C17_RsiAndBandsInRange ==
    engine.done =>
        \A i \in Indices :
            /\ Defined(engine.rsiArr[i + 1]) =>
                /\ RatLE(Num(0), engine.rsiArr[i + 1])
                /\ RatLE(engine.rsiArr[i + 1], Num(100))
            /\ (Defined(engine.bb_upper[i + 1]) /\ Defined(engine.bb_lower[i + 1])) =>
                RatLE(engine.bb_lower[i + 1], engine.bb_upper[i + 1])

\* a series with a gain and a loss: an RSI strictly inside the range and
\* bands apart from each other at the last index
C17_Witness ==
    /\ engine.done
    /\ Len(ohlcv) = BB_LENGTH
    /\ RatLT(Num(0), engine.rsiArr[BB_LENGTH])
    /\ RatLT(engine.rsiArr[BB_LENGTH], Num(100))
    /\ RatLT(engine.bb_lower[BB_LENGTH], engine.bb_upper[BB_LENGTH])

(***************************************************************************)
(* Several coins and several signals at once, awaits taking any time       *)
(***************************************************************************)
ManySignals == 2    \* registrations followed
ManyInFlight == 1   \* suspended callbacks of one signal's timer
ManySweeps == 2     \* suspended runAutoAnalysis passes
ManyTime == 1       \* minutes followed

\* the first symbols of the list of 49
Universe == << "BTCUSDT", "ETHUSDT" >>

\* analyzeSymbol's answers followed here: nothing, or a LONG candidate
UniverseAnswers ==
    {NoCandidate} \cup
    {Candidate(Universe[i], "LONG") : i \in 1 .. Len(Universe)}

InitMany == InitSystem({1})
NextMany ==
    \/ Advance(ManyTime)
    \/ \E s \in SignalIds : TimerFire(s, ManyInFlight)
    \/ \E s \in SignalIds : \E t \in ticks[s] : \E fetch \in Fetches :
            CheckReturns(s, t, fetch)
    \/ \E s \in SignalIds : \E t \in ticks[s] : BroadcastReturns(s, t)
    \/ runAutoAnalysis(Universe, ManySweeps)
    \/ \E w \in sweeps : \E res \in UniverseAnswers :
            SweepAnalyzedIn(Universe, w, res, ManySignals)
    \/ \E w \in sweeps : SweepBroadcastIn(Universe, w)
SpecMany == InitMany /\ [][NextMany]_vars

(***************************************************************************)
(* One pass of runAutoAnalysis on its own, over the head of the list        *)
(***************************************************************************)
SweepSignals == 3   \* registrations followed in the pass

SweepCoins == << "BTCUSDT", "ETHUSDT", "BNBUSDT", "SOLUSDT" >>

SweepAnswers ==
    {NoCandidate} \cup
    {Candidate(SweepCoins[i], side) : i \in 1 .. Len(SweepCoins), side \in SIDES}

InitSweep == InitSystem({90})
NextSweep ==
    \/ runAutoAnalysis(SweepCoins, MaxSweeps)
    \/ \E w \in sweeps : \E res \in SweepAnswers :
            SweepAnalyzedIn(SweepCoins, w, res, SweepSignals)
    \/ \E w \in sweeps : SweepBroadcastIn(SweepCoins, w)
SpecSweep == InitSweep /\ [][NextSweep]_vars

\* Every await of a pass ends: the delays are timers, analyzeSymbol and the
\* broadcast give up on their requests after a timeout
FairSweep ==
    /\ SpecSweep
    /\ WF_vars(\E w \in sweeps : \E res \in SweepAnswers :
                    SweepAnalyzedIn(SweepCoins, w, res, SweepSignals))
    /\ WF_vars(\E w \in sweeps : SweepBroadcastIn(SweepCoins, w))

(***************************************************************************)
(* Claims about the sweep and about several monitors                        *)
(***************************************************************************)
PassOf(start) == { w \in sweeps : w.start = start }

\* C21: a pass of runAutoAnalysis starts at the first symbol; each of its
\* steps either registers the candidate of the symbol it is at or moves to
\* the next symbol of the list, whether the symbol gave a candidate, nothing
\* or an error; the pass leaves the loop only after the last symbol, and
\* every pass that started ends.
C21_SweepIsolation ==
    /\ [][/\ \A w \in sweeps :
              LET after == { v \in sweeps' : v.start = w.start }
              IN  \/ after = {w}
                  \/ /\ w.pc = "analyze"
                     /\ after = {[start |-> w.start, idx |-> w.idx, pc |-> "broadcast"]}
                  \/ /\ w.idx + 1 < Len(SweepCoins)
                     /\ after = {[start |-> w.start, idx |-> w.idx + 1, pc |-> "analyze"]}
                  \/ /\ w.idx + 1 = Len(SweepCoins)
                     /\ after = {}
          /\ \A v \in sweeps' :
              PassOf(v.start) = {} => (v.idx = 0 /\ v.pc = "analyze")]_vars
    /\ (PassOf(0) # {}) ~> (PassOf(0) = {})

\* the first two symbols gave nothing, the third a signal, and the pass is
\* at the last symbol
C21_Witness ==
    /\ Len(activeSignals) = 1
    /\ activeSignals[1].symbol = SweepCoins[3]
    /\ \E w \in sweeps : w.idx + 1 = Len(SweepCoins) /\ w.pc = "analyze"

\* The event loop serves a due timer, and every request a callback awaits
\* (candles, Telegram sends) ends
MonitorsProgress(cap) ==
    /\ WF_vars(\E s \in SignalIds : TimerFire(s, cap))
    /\ WF_vars(\E s \in SignalIds : \E t \in ticks[s] : \E fetch \in Fetches :
                    CheckReturns(s, t, fetch))
    /\ WF_vars(\E s \in SignalIds : \E t \in ticks[s] : BroadcastReturns(s, t))

FairSpec == Spec /\ MonitorsProgress(MaxInFlight)
FairTimed == SpecTimed /\ MonitorsProgress(MaxInFlight)

\* the signal is closed and its timer is gone
Released(s) ==
    /\ activeSignals[s].status \in TERMINAL
    /\ activeSignals[s].monitorInterval = "none"

\* C22: starting a monitor for a signal that holds a timer changes nothing,
\* so a signal never has two timers; a signal with a terminal status
\* eventually has no timer and no handle; and once it is so, no callback of
\* that signal starts and none comes back from its check of the candles.
C22_OneTimerReleasedForGood ==
    /\ [](\A s \in SignalIds :
            activeSignals[s].monitorInterval # "none"
                => startMonitoringSignal(activeSignals[s]) = activeSignals[s])
    /\ \A s \in 1 .. MaxSignals :
            (s \in SignalIds /\ activeSignals[s].status \in TERMINAL)
                ~> (s \in SignalIds /\ Released(s))
    /\ [][\A s \in SignalIds :
            Released(s)
                => /\ ~TimerFire(s, MaxInFlight)
                   /\ \A t \in ticks[s] : \A fetch \in Fetches :
                        ~CheckReturns(s, t, fetch)]_vars

\* a step of the callback of signal a's timer
TickOf(a) ==
    \/ TimerFire(a, ManyInFlight)
    \/ \E t \in ticks[a] : BroadcastReturns(a, t)
    \/ \E t \in ticks[a] : \E fetch \in Fetches : CheckReturns(a, t, fetch)

\* C23: a step of the callback of signal A's timer (it starts, its check
\* answers, its broadcast ends) leaves every other signal B as it was:
\* status, resolvedAt, monitorChecks, monitorHistory and timer handle, and
\* B's suspended callbacks; whatever steps of A and B came before.
C23_MonitorsIndependent ==
    [][\A a \in SignalIds : \A b \in SignalIds \ {a} :
            TickOf(a) => /\ activeSignals'[b] = activeSignals[b]
                         /\ ticks'[b] = ticks[b]]_vars

\* A was closed by its callback while a callback of B is suspended
C23_Witness ==
    /\ Len(activeSignals) = 2
    /\ activeSignals[1].status \in TERMINAL
    /\ activeSignals[1].monitorInterval = "none"
    /\ activeSignals[2].status = "OPEN"
    /\ activeSignals[2].monitorChecks = 1
    /\ ticks[2] # {}

\* the minute candle idx of a window opened in, the window being served at
\* minute nowMin and ending with the candle of that minute
OpenTime(candles, idx, nowMin) == nowMin - (Len(candles) - 1 - idx)

\* C24: when a check of the candles closes a signal as TP or SL, the candle
\* that decided opened at or after the signal's createdAt.
C24_OnlyCandlesSinceCreation ==
    [][\A s \in SignalIds : \A t \in ticks[s] : \A fetch \in Fetches :
            LET sig == activeSignals[s]
                candles == Klines(fetch.series, LookbackLimit(120))
                result == checkSignalHit(sig.side, sig.sl, sig.tp, 120, fetch)
            IN  (CheckReturns(s, t, fetch) /\ result.status \in {"TP", "SL"})
                    => OpenTime(candles, result.idx, now) >= sig.createdAt]_vars

\* C25: no two signals of the same symbol and side are both OPEN with
\* creation times at most DEDUPE_WINDOW_MINUTES apart, whatever passes of the
\* sweep and callbacks of monitors are suspended and in whatever order they
\* resume.
C25_NoOpenTwins ==
    \A i \in SignalIds : \A j \in SignalIds \ {i} :
        ( /\ activeSignals[i].symbol = activeSignals[j].symbol
          /\ activeSignals[i].side = activeSignals[j].side
          /\ activeSignals[i].status = "OPEN"
          /\ activeSignals[j].status = "OPEN" )
            => Abs(activeSignals[i].createdAt - activeSignals[j].createdAt)
                    > DEDUPE_WINDOW_MINUTES

\* the pass of minute 1 went by the first symbol while the pass of minute 0
\* is suspended, the signal of that symbol is OPEN and a callback of its
\* monitor is suspended
C25_Witness ==
    /\ Cardinality(sweeps) = 2
    /\ \E w \in sweeps : w.start = 1 /\ w.idx = 1
    /\ Len(activeSignals) = 1
    /\ activeSignals[1].symbol = Universe[1]
    /\ activeSignals[1].status = "OPEN"
    /\ ticks[1] # {}

(***************************************************************************)
(* Claims about the confidence of a candidate                               *)
(***************************************************************************)
\* C26: an answer of analyzeSymbol that has a side has a whole-number
\* confidence from 60 to 95, so the sweep's test confidence >= 60 lets it
\* through.
C26_ConfidenceInRange ==
    (verdict.done /\ verdict.value.side # NULL)
        => /\ verdict.value.confidence \in 60 .. 95
           /\ verdict.value.confidence >= 60

\* an acceleration large enough for the ceiling: 60 + 35
C26_Witness ==
    /\ verdict.done
    /\ verdict.value.side = "SHORT"
    /\ snapshot.acc = Num(-8)
    /\ verdict.value.confidence = 95

\* C27: a signal registered by registerSignal has a resolvedAt exactly when
\* its status is TP, SL or EXPIRED; while it is OPEN its resolvedAt is null.
C27_ResolvedAtIffTerminal ==
    \A s \in SignalIds :
        /\ (activeSignals[s].resolvedAt # NoTime)
                <=> (activeSignals[s].status \in TERMINAL)
        /\ activeSignals[s].status = "OPEN" => activeSignals[s].resolvedAt = NoTime

\* the first signal expired at its last check, the second is being watched
C27_Witness ==
    /\ Len(activeSignals) = 2
    /\ activeSignals[1].status = "EXPIRED"
    /\ activeSignals[1].resolvedAt = activeSignals[1].createdAt + maxChecks
    /\ activeSignals[2].status = "OPEN"
    /\ activeSignals[2].monitorChecks >= 1
    /\ activeSignals[2].resolvedAt = NoTime

====
